---- MODULE Spec2Model ----
(***************************************************************************)
(* Model of the Slack integration resolver (src/src/resolver.js) and its   *)
(* workflow binding (src/src/slack.al): the browser configuration store,   *)
(* the two-tier setting lookup, and the send / receive adapter operations. *)
(***************************************************************************)
EXTENDS Integers, Sequences, FiniteSets, TLC

VARIABLES config, storage, hasStorage, al_integmanager, loads, lastOp,
          lastSend, rcv

vars == <<config, storage, hasStorage, al_integmanager, loads, lastOp,
          lastSend, rcv>>

----------------------------------------------------------------------------
(* JavaScript values *)

\* the value `undefined`; never a member of Strings
Undefined == "<undefined>"

Keys == {"apiKey", "channel"}

\* configuration values: strings, the empty string included
Strings == {"", "X", "Y", "C"}

\* JavaScript truthiness of a string-or-undefined value
Truthy(v) == v # Undefined /\ v # ""

\* plain objects / Map contents with string values
Objects == UNION {[d -> Strings] : d \in SUBSET Keys}

EmptyMap == [k \in {} |-> ""]

----------------------------------------------------------------------------
(* JSON serialisation of the configuration object *)

\* order in which members are written; not observable through get / has
KeyOrder == <<"apiKey", "channel">>

\* JSON.stringify(Object.fromEntries(map.entries())): the member list
JSONstringify(obj) ==
    LET ks == SelectSeq(KeyOrder, LAMBDA k : k \in DOMAIN obj)
    IN  [i \in 1..Len(ks) |-> <<ks[i], obj[ks[i]]>>]

\* JSON.parse of a stored item: throws on corrupt text, otherwise the object
\* whose members are read left to right (a later duplicate wins)
JSONparse(item) ==
    IF item.kind # "text"
    THEN [ok |-> FALSE, obj |-> EmptyMap]
    ELSE LET ms == item.text
             ks == {ms[i][1] : i \in 1..Len(ms)}
             last(k) == CHOOSE i \in 1..Len(ms) :
                            /\ ms[i][1] = k
                            /\ \A j \in 1..Len(ms) : ms[j][1] = k => j <= i
         IN  [ok |-> TRUE, obj |-> [k \in ks |-> ms[last(k)][2]]]

\* localStorage items under 'slack_integration_config'
NoItem == [kind |-> "none"]
CorruptItem == [kind |-> "corrupt"]
TextItem(obj) == [kind |-> "text", text |-> JSONstringify(obj)]
StorageItems == {NoItem, CorruptItem} \cup {TextItem(o) : o \in Objects}

\* the stored item of every configuration object
TextOf == [o \in Objects |-> TextItem(o)]

----------------------------------------------------------------------------
(* BrowserConfig *)

\* first half of init: Object.entries(configObj).forEach(config.set)
MergeInitial(mem, initial) ==
    [k \in DOMAIN mem \cup DOMAIN initial |->
        IF k \in DOMAIN initial THEN initial[k] ELSE mem[k]]

\* a merge in which the persisted members replace the ones in memory
MergePersisted_PersistedWins(mem, parsed) ==
    [k \in DOMAIN mem \cup DOMAIN parsed |->
        IF k \in DOMAIN parsed THEN parsed[k] ELSE mem[k]]

\* second half of init: persisted members are added only for absent keys
MergePersisted(mem, parsed) ==
    [k \in DOMAIN mem \cup DOMAIN parsed |->
        IF k \in DOMAIN mem THEN mem[k] ELSE parsed[k]]

\* the in-memory mapping after BrowserConfig.init(initial)
InitResult(mem, initial, avail, item) ==
    LET m1 == MergeInitial(mem, initial)
        p  == JSONparse(item)
    IN  IF avail /\ item.kind # "none" /\ p.ok
        THEN MergePersisted(m1, p.obj)
        ELSE m1

\* BrowserConfig.get on a given mapping
MapGet(mem, key) == IF key \in DOMAIN mem THEN mem[key] ELSE Undefined

\* BrowserConfig.get(key)
BrowserGet(key) == MapGet(config, key)

\* the in-memory mapping after config.set(key, value)
SetResult(mem, key, value) ==
    [k \in DOMAIN mem \cup {key} |-> IF k = key THEN value ELSE mem[k]]

\* a set that persists only the entry it wrote
PersistedObject_EntryOnly(mem, key, value) == [k \in {key} |-> value]

\* what set writes to localStorage
PersistedObject(mem, key, value) == SetResult(mem, key, value)

----------------------------------------------------------------------------
(* Integration manager *)

\* pending loadIntegrationManager calls the model allows at once
MaxLoads == 1

\* values getIntegrationConfig('slack', key) may return
MgrValues == {Undefined, "", "M"}

\* al_integmanager before any load succeeded
Unloaded == [loaded |-> FALSE, hasGet |-> FALSE,
             cfg |-> [k \in Keys |-> Undefined]]

\* a loaded manager object, with or without getIntegrationConfig
Managers ==
    {[loaded |-> TRUE, hasGet |-> FALSE, cfg |-> [k \in Keys |-> Undefined]]}
    \cup {[loaded |-> TRUE, hasGet |-> TRUE, cfg |-> c] : c \in [Keys -> MgrValues]}

\* how the dynamic import can end: the module arrives (value is
\* module.integrations || module), or it fails and window.agentlang is or is
\* not there (value is window.agentlang.integrations, possibly undefined)
LoadOutcomes ==
    {[imported |-> TRUE, windowAgentlang |-> FALSE, value |-> m] : m \in Managers}
    \cup {[imported |-> FALSE, windowAgentlang |-> TRUE, value |-> m] :
             m \in Managers \cup {Unloaded}}
    \cup {[imported |-> FALSE, windowAgentlang |-> FALSE, value |-> Unloaded]}

\* al_integmanager after the import of loadIntegrationManager settles
LoadResult(cur, o) ==
    IF o.imported THEN o.value
    ELSE IF o.windowAgentlang THEN o.value
    ELSE cur

\* al_integmanager && al_integmanager.getIntegrationConfig
HasCapability == al_integmanager.loaded /\ al_integmanager.hasGet

getApiKey ==
    IF HasCapability /\ Truthy(al_integmanager.cfg["apiKey"])
    THEN al_integmanager.cfg["apiKey"]
    ELSE BrowserGet("apiKey")

\* a lookup that falls back only when the manager has no capability
getChannel_AbsentOnly ==
    IF HasCapability
    THEN al_integmanager.cfg["channel"]
    ELSE BrowserGet("channel")

getChannel ==
    IF HasCapability /\ Truthy(al_integmanager.cfg["channel"])
    THEN al_integmanager.cfg["channel"]
    ELSE BrowserGet("channel")

----------------------------------------------------------------------------
(* Resolver operations *)

\* the most recent resolver call and its arguments
NoOp == [op |-> "none", key |-> "-", initial |-> EmptyMap]

\* config.init(initial)
init(initial) ==
    /\ config' = InitResult(config, initial, hasStorage, storage)
    /\ lastOp' = [op |-> "init", key |-> "-", initial |-> initial]
    /\ UNCHANGED <<storage, hasStorage, al_integmanager, loads, lastSend, rcv>>

\* config.set(key, value)
set(key, value) ==
    /\ config' = SetResult(config, key, value)
    /\ storage' = IF hasStorage
                  THEN TextItem(PersistedObject(config, key, value))
                  ELSE storage
    /\ lastOp' = [op |-> "set", key |-> key, initial |-> EmptyMap]
    /\ UNCHANGED <<hasStorage, al_integmanager, loads, lastSend, rcv>>

\* initializeSlackConfig(initial): init, then loadIntegrationManager up to
\* its await
initializeSlackConfig(initial) ==
    /\ al_integmanager.loaded \/ loads < MaxLoads
    /\ config' = InitResult(config, initial, hasStorage, storage)
    /\ lastOp' = [op |-> "init", key |-> "-", initial |-> initial]
    /\ loads' = IF al_integmanager.loaded THEN loads ELSE loads + 1
    /\ UNCHANGED <<storage, hasStorage, al_integmanager, lastSend, rcv>>

\* loadIntegrationManager after its await
loadIntegrationManager(o) ==
    /\ loads > 0
    /\ loads' = loads - 1
    /\ al_integmanager' = LoadResult(al_integmanager, o)
    /\ UNCHANGED <<config, storage, hasStorage, lastOp, lastSend, rcv>>

----------------------------------------------------------------------------
(* HTTP transport *)

SlackBaseUrl == "https://slack.com/api"

getUrl(endpoint) == SlackBaseUrl \o "/" \o endpoint

\* longest `messages` list of a thread-replies response
MaxMsgs == 3

Texts == {"a", "b"}

MessageLists == UNION {[1..n -> Texts] : n \in 0..MaxMsgs}

\* a JavaScript object with the fields the adapter reads
Obj(e, t, h, m) == [error |-> e, ts |-> t, hasMessages |-> h, messages |-> m]

\* { error: e }
ErrorDescriptor(e) == Obj(e, Undefined, FALSE, <<>>)

\* response bodies of chat.postMessage: with and without a `ts`
PostBodies == {Obj(Undefined, t, FALSE, <<>>) : t \in {"123.45", Undefined}}

\* response bodies of conversations.replies: with and without `messages`
GetBodies == {Obj(Undefined, Undefined, FALSE, <<>>)}
             \cup {Obj(Undefined, Undefined, TRUE, m) : m \in MessageLists}

\* what awaiting axios(url, config) can do: resolve with a response, or
\* reject with error.response, with error.request, or with neither
Failures ==
    {[kind |-> "status", status |-> 429, statusText |-> "Too Many Requests",
      message |-> "Request failed with status code 429"],
     [kind |-> "norequest", status |-> 0, statusText |-> "",
      message |-> "Network Error"],
     [kind |-> "setup", status |-> 0, statusText |-> "",
      message |-> "Invalid URL"],
     [kind |-> "setup", status |-> 0, statusText |-> "", message |-> ""]}

Resolved(body) == [kind |-> "ok", data |-> body]

PostOutcomes == {Resolved(b) : b \in PostBodies} \cup Failures

GetOutcomes == {Resolved(b) : b \in GetBodies} \cup Failures

\* the value handleAxiosRequest resolves to
handleAxiosRequest(o) ==
    IF o.kind = "ok" THEN o.data
    ELSE IF o.kind = "status"
    THEN ErrorDescriptor("HTTP error! status: " \o ToString(o.status)
                         \o " " \o o.statusText)
    ELSE IF o.kind = "norequest"
    THEN ErrorDescriptor("No response received from server")
    ELSE ErrorDescriptor(o.message)

NoKeyLog == "Slack API key not configured"

SendFailedLog == "Failed to send Slack message:"

\* headers that always carry Authorization
HeadersFor_AlwaysAuth(apiKey) ==
    [h \in {"Authorization", "Content-Type"} |->
        IF h = "Authorization" THEN "Bearer " \o apiKey
        ELSE "application/json"]

\* the header object StandardHeaders builds from an API key
HeadersFor(apiKey) ==
    IF ~Truthy(apiKey)
    THEN [h \in {"Content-Type"} |-> "application/json"]
    ELSE [h \in {"Authorization", "Content-Type"} |->
             IF h = "Authorization" THEN "Bearer " \o apiKey
             ELSE "application/json"]

\* StandardHeaders(): the headers and what it logs
StandardHeaders ==
    [headers |-> HeadersFor(getApiKey),
     logs |-> IF ~Truthy(getApiKey) THEN {NoKeyLog} ELSE {}]

NoRequest == [method |-> "none"]

\* values an exported operation returns: an object or a plain value
RetObj(o) == [tag |-> "object", obj |-> o]

RetVal(v) == [tag |-> "value", val |-> v]

----------------------------------------------------------------------------
(* send *)

ChannelArgs == {"Xy3673hhj", "C"}

Messages == {"hello"}

\* a body that carries the caller's channel
BodyChannel_Argument(channel, slackChannel) == channel

\* the channel written into the POST body
BodyChannel(channel, slackChannel) == slackChannel

\* a guard that only catches an absent channel
ChannelMissing_UndefinedOnly(slackChannel) == slackChannel = Undefined

\* if (!slackChannel)
ChannelMissing(slackChannel) == ~Truthy(slackChannel)

\* the request send issues (none when the channel is missing), the value it
\* returns and what it logs
SendEffect(channel, message, o) ==
    LET slackChannel == getChannel
        hdr    == StandardHeaders
        result == handleAxiosRequest(o)
    IN  IF ChannelMissing(slackChannel)
        THEN [request |-> NoRequest,
              result  |-> RetObj(ErrorDescriptor("Slack channel not configured")),
              logs    |-> {}]
        ELSE [request |-> [method  |-> "POST",
                           url     |-> getUrl("chat.postMessage"),
                           headers |-> hdr.headers,
                           data    |-> [channel |-> BodyChannel(channel, slackChannel),
                                        text    |-> message]],
              result  |-> IF Truthy(result.error)
                          THEN RetObj(result)
                          ELSE RetVal(result.ts),
              logs    |-> hdr.logs \cup
                          (IF Truthy(result.error) THEN {SendFailedLog} ELSE {})]

NoOutcome == [kind |-> "none"]

\* the record of the most recent send call: its arguments, what the
\* transport did, and SendEffect
NoSend == [channel |-> "", message |-> "", outcome |-> NoOutcome,
           request |-> NoRequest, result |-> RetVal(Undefined), logs |-> {},
           called |-> FALSE, failed |-> FALSE]

\* send(channel, message), as the workflow sendMessageOnChannel calls it; o is
\* what the transport does with the POST.  `failed` records whether the call
\* went down a failure path.
send(channel, message, o) ==
    /\ lastSend' = LET e == SendEffect(channel, message, o)
                   IN  [channel |-> channel, message |-> message, outcome |-> o,
                        request |-> e.request, result |-> e.result,
                        logs |-> e.logs, called |-> TRUE,
                        failed |-> ~Truthy(getChannel) \/ o.kind # "ok"]
    /\ UNCHANGED <<config, storage, hasStorage, al_integmanager, loads, lastOp, rcv>>

----------------------------------------------------------------------------
(* receive *)

\* setTimeout(resolve, 10000)
Delay == 10000

\* milliseconds by which one step of the clock advances a running timer
TickMs == 5000

Threads == {"T1"}

\* a timer that may fire at once
TimerDue_AtOnce(elapsed) == elapsed >= 0

\* the timer callback may run once the delay has elapsed
TimerDue(elapsed) == elapsed >= Delay

\* the URL waitForReply builds before it suspends
ReplyUrl(thread, channel) ==
    getUrl("conversations.replies?ts=" \o thread \o "&channel=" \o channel)

\* a URL rebuilt from the channel that resolves after the delay
ResumeUrl_Rebuilt(r) == ReplyUrl(r.thread, getChannel)

\* the URL the GET goes to: the one built before the delay
ResumeUrl(r) == r.apiUrl

\* the headers of the GET: built when waitForReply resumes
ResumeHeaders(r) == StandardHeaders

\* what waitForReply returns for the value handleAxiosRequest resolved to
ReplyResult(resp) ==
    IF Truthy(resp.error) THEN RetObj(resp)
    ELSE IF resp.hasMessages /\ Len(resp.messages) >= 2
    THEN RetVal(resp.messages[Len(resp.messages)])
    ELSE RetVal("no response")

\* a receive call: pc is its position, apiUrl and channel the locals of
\* waitForReply, elapsed the time since its timer was set, gets the number of
\* GETs it has issued, failed whether it went down a failure path;
\* headersAtCall and urlAtResume record what StandardHeaders and the URL
\* template would have given at the other side of the delay
Idle == [pc |-> "idle", thread |-> "", channel |-> Undefined, apiUrl |-> "",
         elapsed |-> 0, request |-> NoRequest, gets |-> 0,
         failed |-> FALSE, result |-> RetVal(Undefined),
         headersAtCall |-> HeadersFor(Undefined), urlAtResume |-> ""]

\* receive(threadId): waitForReply up to its first suspension or early return
receive(threadId) ==
    /\ rcv.pc \in {"idle", "done"}
    /\ LET channel == getChannel
       IN  rcv' = IF ~Truthy(channel)
                  THEN [Idle EXCEPT !.pc = "done", !.thread = threadId,
                                    !.channel = channel, !.failed = TRUE,
                                    !.result = RetObj(ErrorDescriptor("Channel not configured"))]
                  ELSE [Idle EXCEPT !.pc = "delay", !.thread = threadId,
                                    !.channel = channel,
                                    !.apiUrl = ReplyUrl(threadId, channel),
                                    !.headersAtCall = StandardHeaders.headers]
    /\ UNCHANGED <<config, storage, hasStorage, al_integmanager, loads, lastOp, lastSend>>

\* time passes while the timer of waitForReply runs
Tick ==
    /\ rcv.pc = "delay"
    /\ ~TimerDue(rcv.elapsed)
    /\ rcv' = [rcv EXCEPT !.elapsed = @ + TickMs]
    /\ UNCHANGED <<config, storage, hasStorage, al_integmanager, loads, lastOp, lastSend>>

\* the timer fires and waitForReply resumes: it builds the headers and hands
\* the GET to handleAxiosRequest
resume ==
    /\ rcv.pc = "delay"
    /\ TimerDue(rcv.elapsed)
    /\ rcv' = [rcv EXCEPT !.pc = "waiting",
                          !.request = [method  |-> "GET",
                                       url     |-> ResumeUrl(rcv),
                                       headers |-> ResumeHeaders(rcv).headers],
                          !.gets = @ + 1,
                          !.urlAtResume = ReplyUrl(rcv.thread, getChannel)]
    /\ UNCHANGED <<config, storage, hasStorage, al_integmanager, loads, lastOp, lastSend>>

\* the GET settles and waitForReply returns
reply(o) ==
    /\ rcv.pc = "waiting"
    /\ rcv' = [rcv EXCEPT !.pc = "done", !.failed = (o.kind # "ok"),
                          !.result = ReplyResult(handleAxiosRequest(o))]
    /\ UNCHANGED <<config, storage, hasStorage, al_integmanager, loads, lastOp, lastSend>>

----------------------------------------------------------------------------
(* Specifications *)

\* the module just loaded: an empty Map, no manager, and whatever an earlier
\* session left in localStorage (nothing when there is no localStorage)
Init ==
    /\ config = EmptyMap
    /\ hasStorage \in BOOLEAN
    /\ storage \in (IF hasStorage THEN StorageItems ELSE {NoItem})
    /\ al_integmanager = Unloaded
    /\ loads = 0
    /\ lastOp = NoOp
    /\ lastSend = NoSend
    /\ rcv = Idle

\* the configuration resolver on its own
NextConfig ==
    \/ \E initial \in Objects : init(initial)
    \/ \E key \in Keys, value \in Strings : set(key, value)
    \/ \E initial \in Objects : initializeSlackConfig(initial)
    \/ \E o \in LoadOutcomes : loadIntegrationManager(o)

SpecConfig == Init /\ [][NextConfig]_vars

\* a browser without a saved configuration
InitFresh == Init /\ hasStorage /\ storage = NoItem

\* values and managers the adapter specifications configure with
AdapterStrings == {"", "X", "C"}

AdapterLoads ==
    {o \in LoadOutcomes :
        o.imported /\ \A k \in Keys : o.value.cfg[k] \in {Undefined, "M"}}

\* configuration changes an adapter call can meet
Configure(outcomes) ==
    \/ \E key \in Keys, value \in AdapterStrings : set(key, value)
    \/ initializeSlackConfig(EmptyMap)
    \/ \E o \in outcomes : loadIntegrationManager(o)

NextSend ==
    \/ Configure(AdapterLoads)
    \/ \E channel \in ChannelArgs, message \in Messages, o \in PostOutcomes :
          send(channel, message, o)

SpecSend == InitFresh /\ [][NextSend]_vars

NextReceive ==
    \/ Configure(AdapterLoads)
    \/ \E threadId \in Threads : receive(threadId)
    \/ Tick
    \/ resume
    \/ \E o \in GetOutcomes : reply(o)

SpecReceive == InitFresh /\ [][NextReceive]_vars

----------------------------------------------------------------------------
(* Properties of the configuration resolver *)

\* C3: init(initial) over a persisted store P leaves, for every key k,
\* initial[k] if initial has k, else the value memory already held, else P[k],
\* else undefined; a persisted value never replaces a provided one.
C3_InitPrecedence ==
    [][( /\ lastOp'.op = "init"
         /\ hasStorage
         /\ storage.kind = "text"
         /\ init(lastOp'.initial) \/ initializeSlackConfig(lastOp'.initial) ) =>
          LET initial == lastOp'.initial
              P == JSONparse(storage).obj
          IN  storage = TextOf[P] =>
                 \A k \in Keys :
                    MapGet(config', k) =
                       IF k \in DOMAIN initial THEN initial[k]
                       ELSE IF k \in DOMAIN config THEN config[k]
                       ELSE IF k \in DOMAIN P THEN P[k]
                       ELSE Undefined]_vars

\* init({apiKey:"X"}) over the store {apiKey:"Y", channel:"C"} has happened
C3_Witness ==
    /\ lastOp.op = "init"
    /\ lastOp.initial = [k \in {"apiKey"} |-> "X"]
    /\ hasStorage
    /\ storage = TextItem([k \in Keys |-> IF k = "apiKey" THEN "Y" ELSE "C"])
    /\ BrowserGet("apiKey") = "X"
    /\ BrowserGet("channel") = "C"

\* C4: each setting resolves to the manager's value when a manager with
\* getIntegrationConfig is loaded and its value is truthy, and to the local
\* get(key) in every other case, a falsy manager value included.
C4_TwoTierLookup ==
    \A k \in Keys :
        LET resolved == IF k = "apiKey" THEN getApiKey ELSE getChannel
            primary  == al_integmanager.cfg[k]
        IN  /\ ~al_integmanager.loaded => resolved = BrowserGet(k)
            /\ (al_integmanager.loaded /\ ~al_integmanager.hasGet)
                  => resolved = BrowserGet(k)
            /\ (al_integmanager.loaded /\ al_integmanager.hasGet /\ ~Truthy(primary))
                  => resolved = BrowserGet(k)
            /\ (al_integmanager.loaded /\ al_integmanager.hasGet /\ Truthy(primary))
                  => resolved = primary

\* the manager answers the channel with the empty string and the API key with
\* a value, while the local store holds other values for both
C4_Witness ==
    /\ al_integmanager.loaded /\ al_integmanager.hasGet
    /\ al_integmanager.cfg["channel"] = ""
    /\ al_integmanager.cfg["apiKey"] = "M"
    /\ BrowserGet("channel") = "C"
    /\ BrowserGet("apiKey") = "X"
    /\ getChannel = "C"
    /\ getApiKey = "M"

\* C5: set(k, v) makes get(k) return v at once; with a storage backend the
\* object it persists is the whole in-memory mapping, so a fresh resolver
\* whose init is given no value for k reads v; without one, memory is still
\* updated and the store left alone.
C5_SetPersistsAll ==
    [][\A k \in Keys, v \in Strings :
          (lastOp'.op = "set" /\ lastOp'.key = k /\ set(k, v)) =>
             /\ MapGet(config', k) = v
             /\ \A j \in DOMAIN config \ {k} : MapGet(config', j) = config[j]
             /\ hasStorage =>
                   /\ storage'.kind = "text"
                   /\ JSONparse(storage').ok
                   /\ JSONparse(storage').obj = config'
                   /\ \A initial \in Objects :
                         k \notin DOMAIN initial =>
                            MapGet(InitResult(EmptyMap, initial, TRUE, storage'), k) = v
             /\ ~hasStorage => storage' = storage]_vars

\* set("channel", "C") has just run over a memory that also holds an API key,
\* with a storage backend
C5_Witness ==
    /\ lastOp.op = "set" /\ lastOp.key = "channel"
    /\ hasStorage
    /\ BrowserGet("channel") = "C"
    /\ BrowserGet("apiKey") = "X"
    /\ JSONparse(storage).obj = config
    /\ MapGet(InitResult(EmptyMap, EmptyMap, TRUE, storage), "channel") = "C"

----------------------------------------------------------------------------
(* Properties of send *)

ChannelError == RetObj(ErrorDescriptor("Slack channel not configured"))

\* a returned value that carries an `error` field
HasErrorField(r) == r.tag = "object" /\ r.obj.error # Undefined

\* C1: whenever the channel resolves to a falsy value, send returns exactly
\* {error: 'Slack channel not configured'} and issues no request, whatever
\* its channel argument, its message and the transport.
C1_NoChannelNoRequest ==
    [][( /\ lastSend'.called
         /\ send(lastSend'.channel, lastSend'.message, lastSend'.outcome)
         /\ ~Truthy(getChannel) ) =>
          /\ lastSend'.result = ChannelError
          /\ lastSend'.request = NoRequest]_vars

\* send has returned the channel error without a request, in a state where a
\* loaded manager answers the channel with a falsy value and the local store
\* has none
C1_Witness ==
    /\ lastSend.called
    /\ lastSend.result = ChannelError
    /\ lastSend.request = NoRequest
    /\ HasCapability
    /\ ~Truthy(al_integmanager.cfg["channel"])
    /\ ~Truthy(BrowserGet("channel"))

\* C2: every send or receive that went down a failure path returned a value
\* that carries an `error` field.
C2_FailuresCarryError ==
    /\ (lastSend.called /\ lastSend.failed) => HasErrorField(lastSend.result)
    /\ (rcv.pc = "done" /\ rcv.failed) => HasErrorField(rcv.result)

\* C6: the channel argument of send has no influence: the POST body carries
\* the resolved channel, and request, returned value and log are the same for
\* every other channel argument.
C6_ChannelArgumentIgnored ==
    [][( /\ lastSend'.called
         /\ send(lastSend'.channel, lastSend'.message, lastSend'.outcome) ) =>
          /\ lastSend'.request # NoRequest =>
                lastSend'.request.data.channel = getChannel
          /\ \A other \in ChannelArgs :
                LET e == SendEffect(other, lastSend'.message, lastSend'.outcome)
                IN  /\ e.request = lastSend'.request
                    /\ e.result = lastSend'.result
                    /\ e.logs = lastSend'.logs]_vars

\* a POST went out whose body channel is not the channel argument of the call
C6_Witness ==
    /\ lastSend.called
    /\ lastSend.request # NoRequest
    /\ lastSend.channel = "Xy3673hhj"
    /\ lastSend.request.data.channel = "C"

\* C9: with a channel resolved, send issues the POST whether or not an API
\* key resolves; the request always has Content-Type, has Authorization
\* exactly when an API key resolved, then "Bearer <apiKey>", and a missing key
\* is logged.
C9_MissingKeyDoesNotBlock ==
    [][( /\ lastSend'.called
         /\ send(lastSend'.channel, lastSend'.message, lastSend'.outcome)
         /\ Truthy(getChannel) ) =>
          LET req == lastSend'.request
          IN  /\ req # NoRequest
              /\ req.method = "POST"
              /\ req.url = "https://slack.com/api/chat.postMessage"
              /\ "Content-Type" \in DOMAIN req.headers
              /\ req.headers["Content-Type"] = "application/json"
              /\ ("Authorization" \in DOMAIN req.headers) <=> Truthy(getApiKey)
              /\ Truthy(getApiKey) =>
                    req.headers["Authorization"] = "Bearer " \o getApiKey
              /\ ~Truthy(getApiKey) => NoKeyLog \in lastSend'.logs
              /\ Truthy(getApiKey) => NoKeyLog \notin lastSend'.logs]_vars

\* a POST without Authorization went out and the missing key was logged, with
\* no manager loaded and no apiKey stored
C9_Witness ==
    /\ lastSend.called
    /\ lastSend.request # NoRequest
    /\ lastSend.request.method = "POST"
    /\ "Authorization" \notin DOMAIN lastSend.request.headers
    /\ NoKeyLog \in lastSend.logs
    /\ ~al_integmanager.loaded
    /\ "apiKey" \notin DOMAIN config

----------------------------------------------------------------------------
(* Properties of receive *)

\* C7: a receive call issues at most one GET, none before its delay has
\* elapsed, and with a resolved channel it returns only after exactly one GET
\* was issued and settled; with an unresolved channel it returns
\* {error: 'Channel not configured'} with no delay and no GET.
C7_OneDelayedGet ==
    /\ rcv.gets <= 1
    /\ rcv.gets = 1 <=> rcv.request # NoRequest
    /\ rcv.request # NoRequest =>
          /\ rcv.elapsed >= Delay
          /\ rcv.request.method = "GET"
          /\ rcv.pc \in {"waiting", "done"}
    /\ rcv.pc = "delay" => Truthy(rcv.channel)
    /\ (rcv.pc = "done" /\ Truthy(rcv.channel)) => rcv.gets = 1
    /\ (rcv.pc = "done" /\ ~Truthy(rcv.channel)) =>
          /\ rcv.result = RetObj(ErrorDescriptor("Channel not configured"))
          /\ rcv.gets = 0
          /\ rcv.elapsed = 0

\* a receive call returned after a failed GET: one GET, after the delay
C7_Witness ==
    /\ rcv.pc = "done"
    /\ rcv.failed
    /\ rcv.gets = 1
    /\ rcv.elapsed >= Delay

\* what C8 says waitForReply returns when the GET settles as o
C8_Expected(o) ==
    IF o.kind # "ok" THEN RetObj(handleAxiosRequest(o))
    ELSE IF o.data.hasMessages /\ Len(o.data.messages) >= 2
    THEN RetVal(o.data.messages[Len(o.data.messages)])
    ELSE RetVal("no response")

\* C8: when the GET errored its error descriptor is returned; otherwise the
\* text of the last of at least two messages, and "no response" for fewer.
C8_ReplyInterpretation ==
    [][\A o \in GetOutcomes : reply(o) => rcv'.result = C8_Expected(o)]_vars

\* C10: the GET goes to the URL built from the channel resolved when receive
\* was called, and carries the headers of the API key that resolves when the
\* delay ends.
C10_ChannelEarlyKeyLate ==
    [][/\ \A threadId \in Threads :
             (receive(threadId) /\ Truthy(getChannel)) =>
                /\ rcv'.channel = getChannel
                /\ rcv'.apiUrl = "https://slack.com/api/conversations.replies?ts="
                                 \o threadId \o "&channel=" \o getChannel
       /\ (rcv.pc = "delay" /\ rcv'.pc = "delay") => rcv'.apiUrl = rcv.apiUrl
       /\ (rcv.pc = "delay" /\ rcv'.pc = "waiting") =>
             /\ rcv'.request.url = rcv.apiUrl
             /\ rcv'.request.headers = HeadersFor(getApiKey)
       /\ (rcv.pc = "waiting" /\ rcv'.pc # "idle" /\ rcv'.pc # "delay") =>
             rcv'.request = rcv.request]_vars

\* a GET went out after both settings were changed during the delay: its URL
\* is not the one the channel gives when the delay ends, and its headers are
\* not the ones the API key gave when receive was called
C10_Witness ==
    /\ rcv.pc = "waiting"
    /\ rcv.request.url = rcv.apiUrl
    /\ rcv.request.url # rcv.urlAtResume
    /\ rcv.request.headers # rcv.headersAtCall

====
